---- MODULE Spec2Model ----
(***************************************************************************)
(* Model of the 2D particle simulation step of Part2/ParticleVisualize.cpp *)
(* (StepSimulation and ResolveCollision).                                  *)
(*                                                                         *)
(* Arithmetic.  The program computes in 32-bit float.  The model keeps    *)
(* every quantity as a fixed-point integer:                                *)
(*   positions, radius, areaSize : 1/Scale world units                     *)
(*   velocities                  : 1/Scale world units per second         *)
(*   dt                          : 1/TimeScale seconds                     *)
(*   dist (after sqrt)           : 1/(Scale*SubScale) world units          *)
(*   nx, ny (unit normal)        : 1/NormScale                             *)
(* and every operation that rounds in float rounds to the nearest         *)
(* representable fixed-point value here (ties away from zero).            *)
(***************************************************************************)
EXTENDS Integers, Sequences, FiniteSets, TLC

VARIABLES
    world,      \* [radius, areaSize]: the world configuration
    dt,         \* the time step passed to StepSimulation
    pmag,       \* the perturbation magnitude p of ResolveCollision
    tape,       \* the values std::rand() returns, in call order (cyclic)
    rpos,       \* number of std::rand() calls made so far, modulo Len(tape)
    particles,  \* the particle array: index -> [px, py, vx, vy, id]
    grid,       \* the spatial hash: [cells, order], see BuildGrid
    pc,         \* position inside StepSimulation
    cur,        \* narrow-phase loop position [i, cx, cy, c, b]
    steps,      \* number of completed StepSimulation calls
    prev,       \* history: the particle array when the current step began
    rprev,      \* history: rpos when the current step began
    mid,        \* history: the particle array when the grid was built
    evald,      \* history: the pairs the narrow phase has tested in this step
    phases,     \* history: the phases StepSimulation has run in this step
    file,       \* the PLY file: [open, lines]
    cloud,      \* the PointCloud object
    ax,         \* the viewer's AutoXform
    normalsReady, \* the viewer's flag: estimateNormals has been called
    keys,       \* history: the keys pressed in the last handleInput call
    calls,      \* number of PointCloud calls, or of frames, so far
    loaded,     \* history: the points when the last successful load finished
    last,       \* history: the name of the last call
    before,     \* history: the PointCloud object before the last call
    eager       \* a PointCloud of the in-place class given the same calls

\* the particle simulation's variables
pvars == <<world, dt, pmag, tape, rpos, particles, grid, pc, cur, steps,
           prev, rprev, mid, evald, phases>>

\* the point cloud viewer's variables
cvars == <<file, cloud, ax, normalsReady, keys, calls, loaded, last, before,
           eager>>

vars == <<pvars, cvars>>

----------------------------------------------------------------------------
(* Fixed-point formats *)

Scale == 2000
TimeScale == 6000
SubScale == 8
NormScale == 32768

(* Bounds of the exploration *)

MaxParticles == 3
MaxSteps == 2
RandMax == 1

----------------------------------------------------------------------------
(* Arithmetic helpers *)

Abs(a) == IF a < 0 THEN -a ELSE a

\* a / b rounded to the nearest integer, ties away from zero (b > 0)
RoundDiv(a, b) ==
    IF a >= 0 THEN (2 * a + b) \div (2 * b)
              ELSE -((2 * (-a) + b) \div (2 * b))

RECURSIVE SqrtFloor(_, _, _)
\* largest s with s*s <= n, searched in lo..hi-1
SqrtFloor(n, lo, hi) ==
    IF hi - lo <= 1 THEN lo
    ELSE LET m == (lo + hi) \div 2
         IN  IF m * m <= n THEN SqrtFloor(n, m, hi) ELSE SqrtFloor(n, lo, m)

\* std::sqrt: the square root of n rounded to the nearest integer
Sqrt(n) ==
    LET s == SqrtFloor(n, 0, 46341)
    IN  IF n - s * s > s THEN s + 1 ELSE s

----------------------------------------------------------------------------
(* Part 1: the PointCloud class of PointCloudUtil, in its two variants.   *)
(* "pending" is the class that keeps a pending model matrix and applies   *)
(* it lazily (bakePendingModel); "inplace" is the class that transforms   *)
(* the points at once.  Coordinates, normal components and matrix entries *)
(* are fixed-point integers in 1/Fix; colours are plain integers.         *)

Fix == 1000

Variants == {"pending", "inplace"}

\* Point p = {}
ZeroPoint ==
    [x |-> 0, y |-> 0, z |-> 0, r |-> 0, g |-> 0, b |-> 0,
     nx |-> 0, ny |-> 0, nz |-> 0]

\* Stats s{}
ZeroStats ==
    [cx |-> 0, cy |-> 0, cz |-> 0, minX |-> 0, minY |-> 0, minZ |-> 0,
     maxX |-> 0, maxY |-> 0, maxZ |-> 0, valid |-> FALSE]

SetMin(S) == CHOOSE m \in S : \A n \in S : m <= n

SetMax(S) == CHOOSE m \in S : \A n \in S : m >= n

RECURSIVE SeqSum(_, _, _)
\* pts[1][a] + ... + pts[k][a]
SeqSum(pts, a, k) == IF k = 0 THEN 0 ELSE pts[k][a] + SeqSum(pts, a, k - 1)

\* the values of coordinate a over the points
Coords(pts, a) == {pts[k][a] : k \in 1..Len(pts)}

\* Mat4: index k of std::array<float,16> m
Mat4(s) == [k \in 0..15 |-> s[k + 1]]

identity == Mat4(<<Fix, 0, 0, 0,  0, Fix, 0, 0,  0, 0, Fix, 0,  0, 0, 0, Fix>>)

translation(tx, ty, tz) == [identity EXCEPT ![12] = tx, ![13] = ty, ![14] = tz]

rotationX(c, s) ==
    Mat4(<<Fix, 0, 0, 0,  0, c, -s, 0,  0, s, c, 0,  0, 0, 0, Fix>>)

rotationY(c, s) ==
    Mat4(<<c, 0, s, 0,  0, Fix, 0, 0,  -s, 0, c, 0,  0, 0, 0, Fix>>)

rotationZ(c, s) ==
    Mat4(<<c, -s, 0, 0,  s, c, 0, 0,  0, 0, Fix, 0,  0, 0, 0, Fix>>)

\* operator*(A, B): R.m[c+4*r] = sum over k of A.m[k+4*r] * B.m[c+4*k]
MatMul(A, B) ==
    [idx \in 0..15 |->
        LET r == idx \div 4
            c == idx % 4
        IN  RoundDiv(A[0 + 4 * r] * B[c + 0] + A[1 + 4 * r] * B[c + 4]
                     + A[2 + 4 * r] * B[c + 8] + A[3 + 4 * r] * B[c + 12],
                     Fix)]

\* transformPoint(M, x, y, z, ox, oy, oz)
transformPoint(M, p) ==
    [p EXCEPT
       !.x = RoundDiv(M[0] * p.x + M[4] * p.y + M[8] * p.z, Fix) + M[12],
       !.y = RoundDiv(M[1] * p.x + M[5] * p.y + M[9] * p.z, Fix) + M[13],
       !.z = RoundDiv(M[2] * p.x + M[6] * p.y + M[10] * p.z, Fix) + M[14]]

\* the linear part of M applied to the normal of p
transformNormal(M, p) ==
    [p EXCEPT
       !.nx = RoundDiv(M[0] * p.nx + M[4] * p.ny + M[8] * p.nz, Fix),
       !.ny = RoundDiv(M[1] * p.nx + M[5] * p.ny + M[9] * p.nz, Fix),
       !.nz = RoundDiv(M[2] * p.nx + M[6] * p.ny + M[10] * p.nz, Fix)]

\* std::cos of angle degrees (angle * M_PI / 180), for the angles explored
Cos(angle) ==
    CASE Abs(angle) = 0 -> Fix
      [] Abs(angle) = 6 -> 995
      [] Abs(angle) = 90 -> 0

\* std::sin of angle degrees, for the angles explored
Sin(angle) ==
    LET s == CASE Abs(angle) = 0 -> 0
               [] Abs(angle) = 6 -> 105
               [] Abs(angle) = 90 -> Fix
    IN  IF angle < 0 THEN -s ELSE s

\* a default-constructed PointCloud of variant v
NewCloud(v) ==
    IF v = "pending"
    THEN [points |-> <<>>, originalPoints |-> <<>>, stats |-> ZeroStats,
          statsDirty |-> TRUE, model |-> identity, hasPendingModel |-> FALSE]
    ELSE [points |-> <<>>, originalPoints |-> <<>>, stats |-> ZeroStats,
          statsDirty |-> TRUE]

\* the object is of the class that has a pending model
Pending(c) == "model" \in DOMAIN c

\* recomputeStats(): the value stored in stats
recomputeStats(pts) ==
    IF pts = <<>> THEN ZeroStats
    ELSE [cx |-> RoundDiv(SeqSum(pts, "x", Len(pts)), Len(pts)),
          cy |-> RoundDiv(SeqSum(pts, "y", Len(pts)), Len(pts)),
          cz |-> RoundDiv(SeqSum(pts, "z", Len(pts)), Len(pts)),
          minX |-> SetMin(Coords(pts, "x")), minY |-> SetMin(Coords(pts, "y")),
          minZ |-> SetMin(Coords(pts, "z")),
          maxX |-> SetMax(Coords(pts, "x")), maxY |-> SetMax(Coords(pts, "y")),
          maxZ |-> SetMax(Coords(pts, "z")),
          valid |-> TRUE]

\* getStats(): the object after the call (stats and statsDirty are mutable)
getStats(c) ==
    IF c.statsDirty
    THEN [c EXCEPT !.stats = recomputeStats(c.points), !.statsDirty = FALSE]
    ELSE c

\* bakePendingModel(); the inplace class has no such step
bakePendingModel(c) ==
    IF ~Pending(c) THEN c
    ELSE IF ~c.hasPendingModel THEN c
    ELSE [c EXCEPT
            !.points = [k \in 1..Len(c.points) |->
                          transformNormal(c.model,
                                          transformPoint(c.model, c.points[k]))],
            !.model = identity,
            !.hasPendingModel = FALSE,
            !.statsDirty = TRUE]

\* one data line: its tokens; the result is [ok, p]
ParseRow(tokens, propertyCount) ==
    IF Len(tokens) < 3 THEN [ok |-> FALSE, p |-> ZeroPoint]
    ELSE LET colour == propertyCount >= 6 /\ Len(tokens) >= 6
             normal == propertyCount = 9 /\ Len(tokens) >= 9
         IN  [ok |-> TRUE,
              p  |-> [x |-> tokens[1], y |-> tokens[2], z |-> tokens[3],
                      r |-> IF colour THEN tokens[4] ELSE 0,
                      g |-> IF colour THEN tokens[5] ELSE 0,
                      b |-> IF colour THEN tokens[6] ELSE 0,
                      nx |-> IF normal THEN tokens[7] ELSE 0,
                      ny |-> IF normal THEN tokens[8] ELSE 0,
                      nz |-> IF normal THEN tokens[9] ELSE 0]]

RECURSIVE ReadLines(_, _, _, _, _)
\* the getline loop from line k on: [ok, points]
ReadLines(lines, k, headerEnded, propertyCount, pts) ==
    IF k > Len(lines) THEN [ok |-> TRUE, points |-> pts]
    ELSE IF ~headerEnded
    THEN IF lines[k].text = "end_header"
         THEN ReadLines(lines, k + 1, TRUE, propertyCount, pts)
         ELSE IF lines[k].text = "property"
         THEN ReadLines(lines, k + 1, FALSE, propertyCount + 1, pts)
         ELSE ReadLines(lines, k + 1, FALSE, propertyCount, pts)
    ELSE LET row == ParseRow(lines[k].tokens, propertyCount)
         IN  IF ~row.ok THEN [ok |-> FALSE, points |-> pts]
             ELSE ReadLines(lines, k + 1, TRUE, propertyCount,
                            Append(pts, row.p))

\* loadFromPLY(filename): [ok, cloud], the return value and the object after
loadFromPLY(c, f) ==
    IF ~f.open THEN [ok |-> FALSE, cloud |-> c]
    ELSE LET got == ReadLines(f.lines, 1, FALSE, 0, c.points)
             c1  == [c EXCEPT !.points = got.points]
         IN  IF ~got.ok THEN [ok |-> FALSE, cloud |-> c1]
             ELSE IF got.points = <<>> THEN [ok |-> FALSE, cloud |-> c1]
             ELSE LET c2 == [c1 EXCEPT !.originalPoints = got.points,
                                       !.statsDirty = TRUE]
                  IN  [ok |-> TRUE,
                       cloud |-> IF Pending(c)
                                 THEN [c2 EXCEPT !.model = identity,
                                                 !.hasPendingModel = FALSE]
                                 ELSE c2]

\* translate(tx, ty, tz)
translate(c, tx, ty, tz) ==
    IF Pending(c)
    THEN [c EXCEPT !.model = MatMul(c.model, translation(tx, ty, tz)),
                   !.hasPendingModel = TRUE,
                   !.statsDirty = TRUE]
    ELSE IF c.points = <<>> THEN c
    ELSE [c EXCEPT
            !.points = [k \in 1..Len(c.points) |->
                          [c.points[k] EXCEPT !.x = @ + tx, !.y = @ + ty,
                                              !.z = @ + tz]],
            !.statsDirty = TRUE]

\* the body of rotate's loop for one point of the inplace class
RotatePoint(p, cs, sn, axis) ==
    CASE axis = "x" -> [p EXCEPT !.y = RoundDiv(p.y * cs - p.z * sn, Fix),
                                 !.z = RoundDiv(p.y * sn + p.z * cs, Fix)]
      [] axis = "y" -> [p EXCEPT !.x = RoundDiv(p.x * cs + p.z * sn, Fix),
                                 !.z = RoundDiv(-(p.x * sn) + p.z * cs, Fix)]
      [] axis = "z" -> [p EXCEPT !.x = RoundDiv(p.x * cs - p.y * sn, Fix),
                                 !.y = RoundDiv(p.x * sn + p.y * cs, Fix)]
      [] OTHER -> p

\* rotate(angle, axis)
rotate(c, angle, axis) ==
    IF Pending(c)
    THEN IF axis \notin {"x", "y", "z"} THEN c
         ELSE LET R == CASE axis = "x" -> rotationX(Cos(angle), Sin(angle))
                         [] axis = "y" -> rotationY(Cos(angle), Sin(angle))
                         [] axis = "z" -> rotationZ(Cos(angle), Sin(angle))
              IN  [c EXCEPT !.model = MatMul(c.model, R),
                            !.hasPendingModel = TRUE,
                            !.statsDirty = TRUE]
    ELSE IF c.points = <<>> THEN c
    ELSE [c EXCEPT
            !.points = [k \in 1..Len(c.points) |->
                          RotatePoint(c.points[k], Cos(angle), Sin(angle), axis)],
            !.statsDirty = TRUE]

\* displaceAlongNormals(displacement)
displaceAlongNormals(c, displacement) ==
    IF ~Pending(c) /\ c.points = <<>> THEN c
    ELSE LET c1 == bakePendingModel(c)
         IN  [c1 EXCEPT
                !.points = [k \in 1..Len(c1.points) |->
                    LET p == c1.points[k]
                    IN  [p EXCEPT
                           !.x = @ + RoundDiv(displacement * p.nx, Fix),
                           !.y = @ + RoundDiv(displacement * p.ny, Fix),
                           !.z = @ + RoundDiv(displacement * p.nz, Fix)]],
                !.statsDirty = TRUE]

\* displaceSymmetrically(displacement)
displaceSymmetrically(c, displacement) ==
    IF c.points = <<>> THEN c
    ELSE LET c1 == getStats(bakePendingModel(c))
             centerX == c1.stats.cx
         IN  [c1 EXCEPT
                !.points = [k \in 1..Len(c1.points) |->
                    LET p  == c1.points[k]
                        dx == p.x - centerX
                        shift == RoundDiv(displacement * Abs(dx), Fix)
                    IN  [p EXCEPT !.x = IF dx >= 0 THEN @ + shift
                                                   ELSE @ - shift]],
                !.statsDirty = TRUE]

\* estimateNormals()
estimateNormals(c) ==
    IF c.points = <<>> THEN c
    ELSE LET c1 == getStats(bakePendingModel(c))
             s  == c1.stats
         IN  [c1 EXCEPT
                !.points = [k \in 1..Len(c1.points) |->
                    LET p  == c1.points[k]
                        dx == p.x - s.cx
                        dy == p.y - s.cy
                        dz == p.z - s.cz
                        len2 == dx * dx + dy * dy + dz * dz
                    IN  IF len2 > 0
                        THEN [p EXCEPT !.nx = RoundDiv(dx * Fix, Sqrt(len2)),
                                       !.ny = RoundDiv(dy * Fix, Sqrt(len2)),
                                       !.nz = RoundDiv(dz * Fix, Sqrt(len2))]
                        ELSE [p EXCEPT !.nx = 0, !.ny = 0, !.nz = 0]]]

\* variant: the reset leaves the pending model in place
resetToOriginal_keepModel(c) ==
    IF c.originalPoints = <<>> THEN c
    ELSE [c EXCEPT !.points = c.originalPoints, !.statsDirty = TRUE]

\* resetToOriginal()
resetToOriginal(c) ==
    IF c.originalPoints = <<>> THEN c
    ELSE LET c1 == [c EXCEPT !.points = c.originalPoints, !.statsDirty = TRUE]
         IN  IF Pending(c)
             THEN [c1 EXCEPT !.model = identity, !.hasPendingModel = FALSE]
             ELSE c1

\* getPoints()
getPoints(c) == c.points

\* the point cloud viewer is not running
CloudIdle ==
    /\ file = [open |-> FALSE, lines |-> <<>>]
    /\ cloud = NewCloud("inplace")
    /\ ax = [cx |-> 0, cy |-> 0, cz |-> 0, scale |-> Fix]
    /\ normalsReady = FALSE
    /\ keys = {}
    /\ calls = 0
    /\ loaded = <<>>
    /\ last = "off"
    /\ before = cloud
    /\ eager = NewCloud("inplace")

----------------------------------------------------------------------------
(* World configuration *)

Half(w) == w.areaSize \div 2

\* variant: cells one radius wide
CellSize_radius(w) == w.radius

\* cellSize = 2.0f * radius
CellSize(w) == 2 * w.radius

MinDist(w) == 2 * w.radius

\* the direction substituted for coincident centres: 1e-3f
Nudge == Scale \div 1000

Count == Cardinality(DOMAIN particles)

----------------------------------------------------------------------------
(* StepSimulation, first loop: integration and wall bounce *)

\* one axis of the wall test: the position and velocity component after it
\* variant: the position is mirrored at the wall instead of put on it
WallAxis_mirror(pos, vel, w) ==
    IF pos - w.radius < -Half(w)
        THEN [pos |-> 2 * (-Half(w) + w.radius) - pos, vel |-> -vel]
    ELSE IF pos + w.radius > Half(w)
        THEN [pos |-> 2 * (Half(w) - w.radius) - pos, vel |-> -vel]
    ELSE [pos |-> pos, vel |-> vel]

\* variant: a bounce also halves the velocity component
WallAxis_damped(pos, vel, w) ==
    IF pos - w.radius < -Half(w)
        THEN [pos |-> -Half(w) + w.radius, vel |-> -(vel \div 2)]
    ELSE IF pos + w.radius > Half(w)
        THEN [pos |-> Half(w) - w.radius, vel |-> -(vel \div 2)]
    ELSE [pos |-> pos, vel |-> vel]

WallAxis(pos, vel, w) ==
    IF pos - w.radius < -Half(w)
        THEN [pos |-> -Half(w) + w.radius, vel |-> -vel]
    ELSE IF pos + w.radius > Half(w)
        THEN [pos |-> Half(w) - w.radius, vel |-> -vel]
    ELSE [pos |-> pos, vel |-> vel]

\* variant: a bounce off an x wall also negates the y velocity
Integrate_coupled(q, w, d) ==
    LET x == WallAxis(q.px + RoundDiv(q.vx * d, TimeScale), q.vx, w)
        y == WallAxis(q.py + RoundDiv(q.vy * d, TimeScale), q.vy, w)
    IN  [q EXCEPT !.px = x.pos, !.vx = x.vel, !.py = y.pos,
                  !.vy = IF x.vel # q.vx THEN -y.vel ELSE y.vel]

\* the loop body for one particle q with time step d
Integrate(q, w, d) ==
    LET x == WallAxis(q.px + RoundDiv(q.vx * d, TimeScale), q.vx, w)
        y == WallAxis(q.py + RoundDiv(q.vy * d, TimeScale), q.vy, w)
    IN  [q EXCEPT !.px = x.pos, !.vx = x.vel, !.py = y.pos, !.vy = y.vel]

IntegrateAll(ps, w, d) == [i \in DOMAIN ps |-> Integrate(ps[i], w, d)]

----------------------------------------------------------------------------
(* StepSimulation, second loop: the spatial hash *)

\* (int)std::floor((pos + half) / cellSize)
CellCoord(pos, w) == (pos + Half(w)) \div CellSize(w)

\* variant: the key is built as Cell{cy, cx}
CellOf_swapped(q, w) == <<CellCoord(q.py, w), CellCoord(q.px, w)>>

\* the key Cell{cx, cy} of a particle
CellOf(q, w) == <<CellCoord(q.px, w), CellCoord(q.py, w)>>

\* The std::unordered_map is modelled as [cells, order]: cells maps each key
\* <<cx, cy>> present to its bucket (the vector of indices), order is the
\* sequence in which an iteration over the map would visit the keys.  The
\* standard leaves that order unspecified; two layouts are explored: a new
\* key is linked at the front or at the back of the element list.
Layouts == {"front", "back"}

EmptyGrid == [cells |-> [k \in {} |-> <<>>], order |-> <<>>]

\* variant: the index is put at the front of its bucket
PushBack_front(g, key, i, layout) ==
    IF key \in DOMAIN g.cells
        THEN [g EXCEPT !.cells[key] = <<i>> \o @]
        ELSE [cells |-> [k \in DOMAIN g.cells \cup {key} |->
                            IF k = key THEN <<i>> ELSE g.cells[k]],
              order |-> IF layout = "front" THEN <<key>> \o g.order
                                            ELSE Append(g.order, key)]

\* grid[key].push_back(i)
PushBack(g, key, i, layout) ==
    IF key \in DOMAIN g.cells
        THEN [g EXCEPT !.cells[key] = Append(@, i)]
        ELSE [cells |-> [k \in DOMAIN g.cells \cup {key} |->
                            IF k = key THEN <<i>> ELSE g.cells[k]],
              order |-> IF layout = "front" THEN <<key>> \o g.order
                                            ELSE Append(g.order, key)]

RECURSIVE BuildFrom(_, _, _, _, _)
\* the insertion loop from index i on
BuildFrom(g, i, ps, w, layout) ==
    IF i >= Cardinality(DOMAIN ps) THEN g
    ELSE BuildFrom(PushBack(g, CellOf(ps[i], w), i, layout),
                   i + 1, ps, w, layout)

BuildGrid(ps, w, layout) == BuildFrom(EmptyGrid, 0, ps, w, layout)

----------------------------------------------------------------------------
(* ResolveCollision *)

\* std::rand() is called four times per resolved collision
RandPerHit == 4

\* variant: the offset is not centred, (std::rand()/(float)RAND_MAX) * p
Perturb_uncentred(u, p) == RoundDiv(u * p, RandMax)

\* ((std::rand()/(float)RAND_MAX) - 0.5f) * p for a rand() result u
Perturb(u, p) == RoundDiv((2 * u - RandMax) * p, 2 * RandMax)

\* the k-th next value std::rand() returns (k = 0 is the next call)
RandAt(tp, rp, k) == tp[((rp + k) % Len(tp)) + 1]

\* variant: coincident centres are nudged along y instead of x
Centres_nudgeY(ps, i, j) ==
    LET dx0 == ps[j].px - ps[i].px
        dy0 == ps[j].py - ps[i].py
    IN  IF dx0 * dx0 + dy0 * dy0 = 0
            THEN [dx |-> 0, dy |-> Nudge, dist2 |-> Nudge * Nudge]
            ELSE [dx |-> dx0, dy |-> dy0, dist2 |-> dx0 * dx0 + dy0 * dy0]

\* dx, dy, dist2 after the coincidence substitution
Centres(ps, i, j) ==
    LET dx0 == ps[j].px - ps[i].px
        dy0 == ps[j].py - ps[i].py
    IN  IF dx0 * dx0 + dy0 * dy0 = 0
            THEN [dx |-> Nudge, dy |-> 0, dist2 |-> Nudge * Nudge]
            ELSE [dx |-> dx0, dy |-> dy0, dist2 |-> dx0 * dx0 + dy0 * dy0]

\* the test that guards the body of ResolveCollision
Colliding(ps, i, j, w) == Centres(ps, i, j).dist2 < MinDist(w) * MinDist(w)

\* the resolution dist is kept to when it divides dx and dy: float keeps a
\* relative precision, so a short distance is kept to a finer step
NormRes(dist2) ==
    IF dist2 <= 64 THEN 4096
    ELSE IF dist2 <= 4096 THEN 512
    ELSE IF dist2 <= 262144 THEN 64
    ELSE SubScale

\* nx = dx / dist, ny = dy / dist
Normal(c) ==
    LET k    == NormRes(c.dist2)
        dist == Sqrt(c.dist2 * k * k)
    IN  [nx |-> RoundDiv(c.dx * k * NormScale, dist),
         ny |-> RoundDiv(c.dy * k * NormScale, dist)]

\* variant: the normal is taken from j to i
Correction_inward(ps, i, j, w) ==
    LET c     == Centres(ps, i, j)
        dist  == Sqrt(c.dist2 * SubScale * SubScale)
        n     == Normal(c)
        over2 == MinDist(w) * SubScale - dist
    IN  [x |-> RoundDiv((-n.nx) * over2, 2 * SubScale * NormScale),
         y |-> RoundDiv((-n.ny) * over2, 2 * SubScale * NormScale)]

\* positional correction: the displacement nx * overlap, ny * overlap
Correction(ps, i, j, w) ==
    LET c     == Centres(ps, i, j)
        dist  == Sqrt(c.dist2 * SubScale * SubScale)
        n     == Normal(c)
        over2 == MinDist(w) * SubScale - dist   \* twice the overlap
    IN  [x |-> RoundDiv(n.nx * over2, 2 * SubScale * NormScale),
         y |-> RoundDiv(n.ny * over2, 2 * SubScale * NormScale)]

\* variant: the exchange is two plain assignments, so j keeps its velocity
ResolveCollision_lostSwap(ps, i, j, w, p, tp, rp) ==
    IF ~Colliding(ps, i, j, w) THEN ps
    ELSE LET s == Correction(ps, i, j, w)
         IN  [ps EXCEPT
                ![i] = [@ EXCEPT !.px = @ - s.x, !.py = @ - s.y,
                          !.vx = ps[j].vx + Perturb(RandAt(tp, rp, 0), p),
                          !.vy = ps[j].vy + Perturb(RandAt(tp, rp, 1), p)],
                ![j] = [@ EXCEPT !.px = @ + s.x, !.py = @ + s.y,
                          !.vx = ps[j].vx + Perturb(RandAt(tp, rp, 2), p),
                          !.vy = ps[j].vy + Perturb(RandAt(tp, rp, 3), p)]]

\* variant: the two array elements are exchanged whole
ResolveCollision_swapParticles(ps, i, j, w, p, tp, rp) ==
    IF ~Colliding(ps, i, j, w) THEN ps
    ELSE [ps EXCEPT ![i] = ps[j], ![j] = ps[i]]

\* variant: the second particle's share of the response lands on its
\* successor in the array
ResolveCollision_offByOne(ps, i, j, w, p, tp, rp) ==
    IF ~Colliding(ps, i, j, w) THEN ps
    ELSE LET s == Correction(ps, i, j, w)
             n == (j + 1) % Cardinality(DOMAIN ps)
         IN  [ps EXCEPT
                ![i] = [@ EXCEPT !.px = @ - s.x, !.py = @ - s.y,
                          !.vx = ps[j].vx + Perturb(RandAt(tp, rp, 0), p),
                          !.vy = ps[j].vy + Perturb(RandAt(tp, rp, 1), p)],
                ![n] = [@ EXCEPT !.px = @ + s.x, !.py = @ + s.y,
                          !.vx = ps[i].vx + Perturb(RandAt(tp, rp, 2), p),
                          !.vy = ps[i].vy + Perturb(RandAt(tp, rp, 3), p)]]

\* the particle array after ResolveCollision(i, j)
ResolveCollision(ps, i, j, w, p, tp, rp) ==
    IF ~Colliding(ps, i, j, w) THEN ps
    ELSE LET s == Correction(ps, i, j, w)
         IN  [ps EXCEPT
                ![i] = [@ EXCEPT !.px = @ - s.x, !.py = @ - s.y,
                          !.vx = ps[j].vx + Perturb(RandAt(tp, rp, 0), p),
                          !.vy = ps[j].vy + Perturb(RandAt(tp, rp, 1), p)],
                ![j] = [@ EXCEPT !.px = @ + s.x, !.py = @ + s.y,
                          !.vx = ps[i].vx + Perturb(RandAt(tp, rp, 2), p),
                          !.vy = ps[i].vy + Perturb(RandAt(tp, rp, 3), p)]]

\* the number of std::rand() calls ResolveCollision(i, j) makes
RandCalls(ps, i, j, w) == IF Colliding(ps, i, j, w) THEN RandPerHit ELSE 0

----------------------------------------------------------------------------
(* StepSimulation, third loop: narrow phase over the 3x3 neighbourhood *)

\* the cell looked up at neighbourhood position c (nx outer, ny inner)
\* variant: only the particle's own cell is looked up
NeighbourKey_ownCell(cu) == <<cu.cx, cu.cy>>

NeighbourKey(cu) == <<cu.cx - 1 + (cu.c \div 3), cu.cy - 1 + (cu.c % 3)>>

\* the loop position of a finished narrow phase over n particles
EndCursor(n) == [i |-> n, cx |-> 0, cy |-> 0, c |-> 0, b |-> 1]

\* the loop position at the start of the iteration for particle i
EnterCursor(i, ps, w) ==
    [i |-> i, cx |-> CellCoord(ps[i].px, w), cy |-> CellCoord(ps[i].py, w),
     c |-> 0, b |-> 1]

\* variant: only the particle itself is skipped
Candidate_noOrder(i, j) == ~(j = i)

\* the test of line 102 that lets candidate j through for particle i
Candidate(i, j) == ~(j <= i)

\* variant: the neighbouring cells are taken by iterating over the map and
\* keeping the keys within one cell of (cx, cy)
CellAt_mapOrder(cu, g) ==
    LET near == SelectSeq(g.order,
                          LAMBDA k : /\ Abs(k[1] - cu.cx) <= 1
                                     /\ Abs(k[2] - cu.cy) <= 1)
    IN  IF cu.c < Len(near) THEN near[cu.c + 1] ELSE <<>>

\* the key that grid.find is called with at loop position cu (line 99)
CellAt(cu, g) == NeighbourKey(cu)

RECURSIVE Scan(_, _, _, _)
\* the next loop position, from cu on, at which a candidate j is tested
Scan(cu, ps, g, w) ==
    LET n == Cardinality(DOMAIN ps)
    IN  IF cu.i >= n THEN EndCursor(n)
        ELSE IF cu.c > 8
            THEN (IF cu.i + 1 >= n THEN EndCursor(n)
                  ELSE Scan(EnterCursor(cu.i + 1, ps, w), ps, g, w))
        ELSE IF CellAt(cu, g) \notin DOMAIN g.cells
            THEN Scan([cu EXCEPT !.c = @ + 1, !.b = 1], ps, g, w)
        ELSE IF cu.b > Len(g.cells[CellAt(cu, g)])
            THEN Scan([cu EXCEPT !.c = @ + 1, !.b = 1], ps, g, w)
        ELSE IF ~Candidate(cu.i, g.cells[CellAt(cu, g)][cu.b])
            THEN Scan([cu EXCEPT !.b = @ + 1], ps, g, w)
        ELSE cu

\* the candidate index j at loop position cu
CandidateAt(cu, g) == g.cells[CellAt(cu, g)][cu.b]

\* the distance test of lines 103-106
Overlapping(ps, i, j, w) ==
    LET dx == ps[j].px - ps[i].px
        dy == ps[j].py - ps[i].py
    IN  dx * dx + dy * dy < (2 * w.radius) * (2 * w.radius)

----------------------------------------------------------------------------
(* Initial states: main() before the loop, with the inputs bounded *)

\* radius and areaSize of the worlds explored: radius 0.5 and radius 1, both
\* in a domain of side 100
Worlds ==
    { [radius |-> Scale \div 2, areaSize |-> 100 * Scale],
      [radius |-> Scale,        areaSize |-> 100 * Scale] }

\* dtFixed = 1/60 s
DtFixed == TimeScale \div 60

\* the time steps explored: dtFixed and 0.1 s
Dts == {DtFixed, TimeScale \div 10}

\* p = 0.01f
PerturbP == Scale \div 100

\* the perturbation magnitudes explored: the program's, and zero (test mode)
Perturbations == {0, PerturbP}

\* the length of a std::rand() result sequence: two collisions' worth
TapeLen == 2 * RandPerHit

\* the std::rand() result sequence explored: alternating low and high
\* results, the second collision's four in the opposite phase of the first's
Tapes ==
    {[k \in 1..TapeLen |-> (k + (k - 1) \div RandPerHit) % (RandMax + 1)]}

\* the initial position/velocity states a particle is drawn from in world w
PStates(w) ==
    LET r == w.radius
        h == Half(w)
    IN  { \* two particles 0.8 r apart on the x axis, approaching at speed 5
          [px |-> -((2 * r) \div 5), py |-> 0, vx |-> 5 * Scale, vy |-> 0],
          [px |-> (2 * r) \div 5, py |-> 0, vx |-> -5 * Scale, vy |-> 0],
          \* speed 80, about to cross the +x wall
          [px |-> h - r - Scale \div 2, py |-> h - r - (3 * Scale) \div 2,
           vx |-> 48 * Scale, vy |-> 64 * Scale],
          \* speed 80, about to cross the -x and -y walls
          [px |-> -h + r + Scale \div 2, py |-> -h + r + Scale \div 2,
           vx |-> -48 * Scale, vy |-> -64 * Scale],
          \* speed 80, about to cross the +y wall
          [px |-> h - r - Scale \div 2, py |-> h - r - Scale \div 2,
           vx |-> -48 * Scale, vy |-> 64 * Scale] }

\* a particle state with its index attached (history field id)
Tagged(q, i) == [px |-> q.px, py |-> q.py, vx |-> q.vx, vy |-> q.vy, id |-> i]

Init ==
    /\ world \in Worlds
    /\ dt \in Dts
    /\ pmag \in Perturbations
    /\ tape \in Tapes
    /\ rpos = 0
    /\ \E n \in 1..MaxParticles :
         \E f \in [0..(n - 1) -> PStates(world)] :
            particles = [i \in 0..(n - 1) |-> Tagged(f[i], i)]
    /\ grid = EmptyGrid
    /\ pc = "idle"
    /\ cur = EndCursor(0)
    /\ steps = 0
    /\ prev = particles
    /\ rprev = 0
    /\ mid = particles
    /\ evald = <<>>
    /\ phases = <<>>
    /\ CloudIdle

----------------------------------------------------------------------------
(* StepSimulation(dt), one action per phase and per tested pair *)

\* lines 72-80: integrate every particle and bounce it off the walls
Integration ==
    /\ pc = "idle"
    /\ steps < MaxSteps
    /\ prev' = particles
    /\ rprev' = rpos
    /\ particles' = IntegrateAll(particles, world, dt)
    /\ evald' = <<>>
    /\ phases' = <<"integrate">>
    /\ pc' = "integrated"
    /\ UNCHANGED <<world, dt, pmag, tape, rpos, grid, cur, steps, mid>>
    /\ UNCHANGED cvars

\* lines 83-91: build the grid; then enter the narrow-phase loop
GridBuild ==
    /\ pc = "integrated"
    /\ \E layout \in Layouts : grid' = BuildGrid(particles, world, layout)
    /\ mid' = particles
    /\ cur' = Scan(EnterCursor(0, particles, world), particles, grid', world)
    /\ pc' = "narrow"
    /\ phases' = Append(phases, "build")
    /\ UNCHANGED <<world, dt, pmag, tape, rpos, particles, steps, prev, rprev,
                   evald>>
    /\ UNCHANGED cvars

\* lines 101-108, distance test false: the pair is left alone
PairMiss ==
    /\ pc = "narrow"
    /\ cur.i < Count
    /\ LET i == cur.i
           j == CandidateAt(cur, grid)
       IN  /\ ~Overlapping(particles, i, j, world)
           /\ evald' = Append(evald, [i |-> i, j |-> j, hit |-> FALSE])
           /\ phases' = Append(phases, "pair")
           /\ cur' = Scan([cur EXCEPT !.b = @ + 1], particles, grid, world)
    /\ UNCHANGED <<world, dt, pmag, tape, rpos, particles, grid, pc, steps,
                   prev, rprev, mid>>
    /\ UNCHANGED cvars

\* lines 101-108, distance test true: ResolveCollision(i, j)
PairHit ==
    /\ pc = "narrow"
    /\ cur.i < Count
    /\ LET i == cur.i
           j == CandidateAt(cur, grid)
       IN  /\ Overlapping(particles, i, j, world)
           /\ particles' =
                ResolveCollision(particles, i, j, world, pmag, tape, rpos)
           /\ rpos' = (rpos + RandCalls(particles, i, j, world)) % Len(tape)
           /\ evald' = Append(evald, [i |-> i, j |-> j, hit |-> TRUE])
           /\ phases' = Append(phases, "pair")
           /\ cur' = Scan([cur EXCEPT !.b = @ + 1], particles', grid, world)
    /\ UNCHANGED <<world, dt, pmag, tape, grid, pc, steps, prev, rprev, mid>>
    /\ UNCHANGED cvars

\* variant: StepSimulation may also return right after the first loop
StepReturn_early ==
    /\ \/ pc = "integrated"
       \/ pc = "narrow" /\ cur.i >= Count
    /\ pc' = "idle"
    /\ steps' = steps + 1
    /\ grid' = EmptyGrid
    /\ UNCHANGED <<world, dt, pmag, tape, rpos, particles, cur, prev, rprev,
                   mid, evald, phases>>
    /\ UNCHANGED cvars

\* line 113: the loops are over, StepSimulation returns and the grid dies
StepReturn ==
    /\ pc = "narrow"
    /\ cur.i >= Count
    /\ pc' = "idle"
    /\ steps' = steps + 1
    /\ grid' = EmptyGrid
    /\ UNCHANGED <<world, dt, pmag, tape, rpos, particles, cur, prev, rprev,
                   mid, evald, phases>>
    /\ UNCHANGED cvars

RECURSIVE NarrowFrom(_, _, _, _, _, _, _)
\* the third loop run to its end from loop position cu: the particle array
\* and the rand() position it ends with
NarrowFrom(cu, ps, g, w, p, tp, rp) ==
    IF cu.i >= Cardinality(DOMAIN ps) THEN [particles |-> ps, rpos |-> rp]
    ELSE LET i   == cu.i
             j   == CandidateAt(cu, g)
             hit == Overlapping(ps, i, j, w)
             ps2 == IF hit THEN ResolveCollision(ps, i, j, w, p, tp, rp) ELSE ps
             rp2 == IF hit THEN (rp + RandCalls(ps, i, j, w)) % Len(tp) ELSE rp
         IN  NarrowFrom(Scan([cu EXCEPT !.b = @ + 1], ps2, g, w),
                        ps2, g, w, p, tp, rp2)

\* StepSimulation(d) as one function of the state it starts from
StepSimulation(ps, w, d, p, tp, rp, layout) ==
    LET ps1 == IntegrateAll(ps, w, d)
        g   == BuildGrid(ps1, w, layout)
    IN  NarrowFrom(Scan(EnterCursor(0, ps1, w), ps1, g, w),
                   ps1, g, w, p, tp, rp)

Next == Integration \/ GridBuild \/ PairMiss \/ PairHit \/ StepReturn

Spec == Init /\ [][Next]_vars

----------------------------------------------------------------------------
(* The integration loop on its own, from any particle state *)

\* worlds with areaSize >= 2*radius: equal, a little larger, much larger
AnyWorlds ==
    { [radius |-> Scale, areaSize |-> 2 * Scale],
      [radius |-> Scale, areaSize |-> 3 * Scale],
      [radius |-> Scale \div 2, areaSize |-> 100 * Scale] }

\* coordinates inside world w, on its walls, and outside it
AnyCoords(w) ==
    {-3 * Half(w), -Half(w) - 1, -Half(w) + w.radius - 1, 0,
     Half(w) - w.radius, Half(w) - w.radius + 1, Half(w), 3 * Half(w)}

\* velocity components: none, slow and fast, both ways
AnyVelocities == {-80 * Scale, -5 * Scale, 0, 5 * Scale, 80 * Scale}

InitAny ==
    /\ world \in AnyWorlds
    /\ dt \in Dts
    /\ pmag = 0
    /\ tape \in Tapes
    /\ rpos = 0
    /\ \E x, y \in AnyCoords(world) : \E u, v \in AnyVelocities :
          particles = [i \in {0} |->
                          Tagged([px |-> x, py |-> y, vx |-> u, vy |-> v], i)]
    /\ grid = EmptyGrid
    /\ pc = "idle"
    /\ cur = EndCursor(0)
    /\ steps = 0
    /\ prev = particles
    /\ rprev = 0
    /\ mid = particles
    /\ evald = <<>>
    /\ phases = <<>>
    /\ CloudIdle

NextIntegrator == Integration

SpecIntegrator == InitAny /\ [][NextIntegrator]_vars

----------------------------------------------------------------------------
(* The step from closely packed particles: corrections move particles     *)
(* across cell borders while the narrow phase is running                   *)

\* particle states of speed 80 near the origin, a few cells apart, as the
\* uniform initial distribution packs particles in a crowded region. Three
\* of them move together; after one dtFixed they sit at x = 3.0, 3.9 and
\* 6.2, the middle one just left of the cell border x = 4 of world radius 1
PackedStates(w) ==
    { [px |-> (22 * Scale) \div 10, py |-> 0,
       vx |-> 48 * Scale, vy |-> 64 * Scale],
      [px |-> (31 * Scale) \div 10, py |-> 0,
       vx |-> 48 * Scale, vy |-> 64 * Scale],
      [px |-> (54 * Scale) \div 10, py |-> 0,
       vx |-> 48 * Scale, vy |-> 64 * Scale],
      \* one cell above, moving the other way
      [px |-> 6 * Scale, py |-> 2 * Scale,
       vx |-> -48 * Scale, vy |-> 64 * Scale] }

\* the number of particles in the packed configurations
PackedCount == 3

InitPacked ==
    /\ world \in Worlds
    /\ dt \in Dts
    /\ pmag \in Perturbations
    /\ tape \in Tapes
    /\ rpos = 0
    /\ \E f \in [0..(PackedCount - 1) -> PackedStates(world)] :
          particles = [i \in 0..(PackedCount - 1) |-> Tagged(f[i], i)]
    /\ grid = EmptyGrid
    /\ pc = "idle"
    /\ cur = EndCursor(0)
    /\ steps = 0
    /\ prev = particles
    /\ rprev = 0
    /\ mid = particles
    /\ evald = <<>>
    /\ phases = <<>>
    /\ CloudIdle

SpecPacked == InitPacked /\ [][Next]_vars

----------------------------------------------------------------------------
(* Part 1: the viewer (PointCloudVisualizer_alt.cpp) *)

\* struct AutoXform, default-constructed
DefaultXform == [cx |-> 0, cy |-> 0, cz |-> 0, scale |-> Fix]

\* computeAutoXform(pts, targetExtent)
computeAutoXform(pts, targetExtent) ==
    IF pts = <<>> THEN DefaultXform
    ELSE LET minx == SetMin(Coords(pts, "x"))
             maxx == SetMax(Coords(pts, "x"))
             miny == SetMin(Coords(pts, "y"))
             maxy == SetMax(Coords(pts, "y"))
             minz == SetMin(Coords(pts, "z"))
             maxz == SetMax(Coords(pts, "z"))
             maxExtent == SetMax({maxx - minx, maxy - miny, maxz - minz})
         IN  [cx |-> RoundDiv(minx + maxx, 2),
              cy |-> RoundDiv(miny + maxy, 2),
              cz |-> RoundDiv(minz + maxz, 2),
              scale |-> IF maxExtent > 0
                        THEN RoundDiv(targetExtent * Fix, maxExtent)
                        ELSE Fix]

\* TRANSLATE_STEP = 2.5f
TRANSLATE_STEP == (5 * Fix) \div 2

\* ROTATE_STEP_DEG = 6.0f
ROTATE_STEP_DEG == 6

\* DISP_STEP = 0.5f
DISP_STEP == Fix \div 2

\* the targetExtent every call passes: 2.0f
TargetExtent == 2 * Fix

\* Op applied to the value of v: one statement after another
Apply(Op(_), v) == CHOOSE r \in {Op(x) : x \in {v}} : TRUE

\* rotateAroundPivot(cloud, angleDeg, axis, ax)
rotateAroundPivot(c, angleDeg, axis, a) ==
    Apply(LAMBDA c2 : translate(c2, a.cx, a.cy, a.cz),
          Apply(LAMBDA c1 : rotate(c1, angleDeg, axis),
                translate(c, -a.cx, -a.cy, -a.cz)))

\* the keys of handleInput that act on the cloud, on ax or on normalsReady
Keys ==
    {"A", "D", "W", "S", "R", "F", "UP", "DOWN", "LEFT", "RIGHT", "Z", "X",
     "N", "M", "J", "K", "C", "U"}

\* handleInput(window, cloud, ax, normalsReady, printedHelp, inputPlyFile)
\* with the keys of K pressed: [cloud, ax, normalsReady, loaded] afterwards,
\* loaded being the return value of the reload (FALSE when U is not pressed)
handleInput(c, a, nr, K, f) ==
    LET T   == TRANSLATE_STEP
        D   == DISP_STEP
        Rot(x, angle, axis) == rotateAroundPivot(x, angle, axis, a)
        nm  == "N" \in K \/ "M" \in K
        c1  == Apply(LAMBDA x : IF "A" \in K THEN translate(x, -T, 0, 0) ELSE x,
                     c)
        c2  == Apply(LAMBDA x : IF "D" \in K THEN translate(x, T, 0, 0) ELSE x,
                     c1)
        c3  == Apply(LAMBDA x : IF "W" \in K THEN translate(x, 0, 0, -T) ELSE x,
                     c2)
        c4  == Apply(LAMBDA x : IF "S" \in K THEN translate(x, 0, 0, T) ELSE x,
                     c3)
        c5  == Apply(LAMBDA x : IF "R" \in K THEN translate(x, 0, T, 0) ELSE x,
                     c4)
        c6  == Apply(LAMBDA x : IF "F" \in K THEN translate(x, 0, -T, 0) ELSE x,
                     c5)
        c7  == Apply(LAMBDA x : IF "UP" \in K
                                THEN Rot(x, ROTATE_STEP_DEG, "x") ELSE x, c6)
        c8  == Apply(LAMBDA x : IF "DOWN" \in K
                                THEN Rot(x, -ROTATE_STEP_DEG, "x") ELSE x, c7)
        c9  == Apply(LAMBDA x : IF "LEFT" \in K
                                THEN Rot(x, ROTATE_STEP_DEG, "y") ELSE x, c8)
        c10 == Apply(LAMBDA x : IF "RIGHT" \in K
                                THEN Rot(x, -ROTATE_STEP_DEG, "y") ELSE x, c9)
        c11 == Apply(LAMBDA x : IF "Z" \in K
                                THEN Rot(x, ROTATE_STEP_DEG, "z") ELSE x, c10)
        c12 == Apply(LAMBDA x : IF "X" \in K
                                THEN Rot(x, -ROTATE_STEP_DEG, "z") ELSE x, c11)
        c13 == Apply(LAMBDA x : IF nm /\ ~nr THEN estimateNormals(x) ELSE x,
                     c12)
        c14 == Apply(LAMBDA x : IF "N" \in K
                                THEN displaceAlongNormals(x, -D) ELSE x, c13)
        c15 == Apply(LAMBDA x : IF "M" \in K
                                THEN displaceAlongNormals(x, D) ELSE x, c14)
        c16 == Apply(LAMBDA x : IF "J" \in K
                                THEN displaceSymmetrically(x, -(D \div 10))
                                ELSE x, c15)
        c17 == Apply(LAMBDA x : IF "K" \in K
                                THEN displaceSymmetrically(x, D \div 10)
                                ELSE x, c16)
        Finish(x) ==
            LET a1 == IF "C" \in K
                      THEN computeAutoXform(getPoints(x), TargetExtent) ELSE a
                re == Apply(LAMBDA y : loadFromPLY(y, f), resetToOriginal(x))
            IN  IF "U" \in K
                THEN [cloud |-> re.cloud,
                      ax |-> computeAutoXform(getPoints(re.cloud), TargetExtent),
                      normalsReady |-> nr \/ nm,
                      loaded |-> re.ok]
                ELSE [cloud |-> x, ax |-> a1, normalsReady |-> nr \/ nm,
                      loaded |-> FALSE]
    IN  Apply(Finish, c17)

----------------------------------------------------------------------------
(* Part 1: the inputs explored *)

MaxCalls == 3
MaxFrames == 2

TextLine(t) == [text |-> t, tokens |-> <<>>]

DataLine(tokens) == [text |-> "", tokens |-> tokens]

\* a PLY header declaring n properties
Header(n) ==
    <<TextLine("ply"), TextLine("format"), TextLine("element")>>
    \o [k \in 1..n |-> TextLine("property")]
    \o <<TextLine("end_header")>>

\* the PLY files explored
Files ==
    { \* positions only
      [open |-> TRUE,
       lines |-> Header(3) \o <<DataLine(<<Fix, 0, 0>>),
                                DataLine(<<-Fix, Fix \div 2, 0>>)>>],
      \* positions, colours and normals
      [open |-> TRUE,
       lines |-> Header(9)
                 \o <<DataLine(<<Fix, Fix, 0, 255, 0, 0, 0, 0, Fix>>),
                      DataLine(<<0, -Fix, Fix, 0, 128, 255, 0, Fix, 0>>)>>],
      \* the second data line is cut short
      [open |-> TRUE,
       lines |-> Header(6) \o <<DataLine(<<0, Fix, 0, 10, 20, 30>>),
                                DataLine(<<Fix, 0>>)>>],
      \* a header and no data
      [open |-> TRUE, lines |-> Header(3)],
      \* no such file
      [open |-> FALSE, lines |-> <<>>] }

\* the points a file holds, read into an empty vector
FilePoints(f) == ReadLines(f.lines, 1, FALSE, 0, <<>>).points

\* the file can be loaded into an empty cloud
Loadable(f) ==
    f.open /\ ReadLines(f.lines, 1, FALSE, 0, <<>>).ok /\ FilePoints(f) # <<>>

\* the translations, rotations and displacements the class is called with
Offsets == {<<TRANSLATE_STEP, 0, 0>>, <<0, 0, -TRANSLATE_STEP>>}

Rotations == {<<ROTATE_STEP_DEG, "x">>, <<-ROTATE_STEP_DEG, "y">>,
              <<90, "z">>, <<ROTATE_STEP_DEG, "w">>}

Displacements == {DISP_STEP, -(DISP_STEP \div 10)}

\* the key combinations explored: none, every single key, and three pairs
KeysDown ==
    {{}} \cup {{k} : k \in Keys} \cup {{"M", "U"}, {"D", "U"}, {"N", "M"}}

\* the particle simulation is not running
ParticlesIdle ==
    /\ world = [radius |-> Scale, areaSize |-> 100 * Scale]
    /\ dt = DtFixed
    /\ pmag = 0
    /\ tape = <<0>>
    /\ rpos = 0
    /\ particles = <<>>
    /\ grid = EmptyGrid
    /\ pc = "off"
    /\ cur = EndCursor(0)
    /\ steps = 0
    /\ prev = <<>>
    /\ rprev = 0
    /\ mid = <<>>
    /\ evald = <<>>
    /\ phases = <<>>

----------------------------------------------------------------------------
(* The PointCloud class under arbitrary calls of its public methods *)

InitCloud ==
    /\ ParticlesIdle
    /\ \E v \in Variants : cloud = NewCloud(v)
    /\ file = [open |-> FALSE, lines |-> <<>>]
    /\ ax = DefaultXform
    /\ normalsReady = FALSE
    /\ keys = {}
    /\ calls = 0
    /\ loaded = <<>>
    /\ last = "construct"
    /\ before = cloud
    /\ eager = NewCloud("inplace")

\* what every call leaves alone
CallFrame(name) ==
    /\ calls < MaxCalls
    /\ calls' = calls + 1
    /\ last' = name
    /\ before' = cloud
    /\ UNCHANGED <<ax, normalsReady, keys, eager>>
    /\ UNCHANGED pvars

LoadFromPLY ==
    /\ \E f \in Files :
       \E got \in {loadFromPLY(cloud, f)} :
         /\ cloud' = got.cloud
         /\ file' = f
         /\ loaded' = IF got.ok THEN got.cloud.points ELSE loaded
    /\ CallFrame("loadFromPLY")

Translate ==
    /\ \E t \in Offsets : cloud' = translate(cloud, t[1], t[2], t[3])
    /\ CallFrame("translate")
    /\ UNCHANGED <<file, loaded>>

Rotate ==
    /\ \E r \in Rotations : cloud' = rotate(cloud, r[1], r[2])
    /\ CallFrame("rotate")
    /\ UNCHANGED <<file, loaded>>

DisplaceAlongNormals ==
    /\ \E d \in Displacements : cloud' = displaceAlongNormals(cloud, d)
    /\ CallFrame("displaceAlongNormals")
    /\ UNCHANGED <<file, loaded>>

DisplaceSymmetrically ==
    /\ \E d \in Displacements : cloud' = displaceSymmetrically(cloud, d)
    /\ CallFrame("displaceSymmetrically")
    /\ UNCHANGED <<file, loaded>>

EstimateNormals ==
    /\ cloud' = estimateNormals(cloud)
    /\ CallFrame("estimateNormals")
    /\ UNCHANGED <<file, loaded>>

ResetToOriginal ==
    /\ cloud' = resetToOriginal(cloud)
    /\ CallFrame("resetToOriginal")
    /\ UNCHANGED <<file, loaded>>

NextCloud ==
    \/ LoadFromPLY
    \/ Translate
    \/ Rotate
    \/ DisplaceAlongNormals
    \/ DisplaceSymmetrically
    \/ EstimateNormals
    \/ ResetToOriginal

SpecCloud == InitCloud /\ [][NextCloud]_vars

----------------------------------------------------------------------------
(* The two PointCloud classes side by side: one object of each, loaded from
   the same file and given the same translate and rotate calls *)

\* forEachTransformedPoint(func): the positions func is called with
forEachTransformedPoint(c) ==
    [k \in 1..Len(c.points) |->
        LET p == IF c.hasPendingModel THEN transformPoint(c.model, c.points[k])
                 ELSE c.points[k]
        IN  <<p.x, p.y, p.z>>]

\* printSummary(): the object after the call; the pending-model class bakes
\* the model first, and both read the stats
printSummary(c) == getStats(bakePendingModel(c))

InitTwin ==
    /\ ParticlesIdle
    /\ file \in {f \in Files : Loadable(f)}
    /\ cloud = loadFromPLY(NewCloud("pending"), file).cloud
    /\ eager = loadFromPLY(NewCloud("inplace"), file).cloud
    /\ loaded = cloud.points
    /\ ax = DefaultXform
    /\ normalsReady = FALSE
    /\ keys = {}
    /\ calls = 0
    /\ last = "loadFromPLY"
    /\ before = cloud

\* what a call on both objects leaves alone
TwinFrame(name) ==
    /\ calls < MaxCalls
    /\ calls' = calls + 1
    /\ last' = name
    /\ before' = cloud
    /\ UNCHANGED <<file, loaded, ax, normalsReady, keys>>
    /\ UNCHANGED pvars

TwinTranslate ==
    /\ \E t \in Offsets :
          /\ cloud' = translate(cloud, t[1], t[2], t[3])
          /\ eager' = translate(eager, t[1], t[2], t[3])
    /\ TwinFrame("translate")

TwinRotate ==
    /\ \E r \in Rotations :
          /\ cloud' = rotate(cloud, r[1], r[2])
          /\ eager' = rotate(eager, r[1], r[2])
    /\ TwinFrame("rotate")

TwinPrintSummary ==
    /\ cloud' = printSummary(cloud)
    /\ eager' = printSummary(eager)
    /\ TwinFrame("printSummary")

NextTwin == TwinTranslate \/ TwinRotate \/ TwinPrintSummary

SpecTwin == InitTwin /\ [][NextTwin]_vars

----------------------------------------------------------------------------
(* The viewer: main loads the file, then calls handleInput once per frame *)

InitViewer ==
    /\ ParticlesIdle
    /\ file \in Files
    /\ \E v \in Variants :
         LET got == loadFromPLY(NewCloud(v), file)
         IN  /\ cloud = got.cloud
             /\ loaded = IF got.ok THEN got.cloud.points ELSE <<>>
             /\ ax = computeAutoXform(getPoints(got.cloud), TargetExtent)
    /\ normalsReady = FALSE
    /\ keys = {}
    /\ calls = 0
    /\ last = "main"
    /\ before = cloud
    /\ eager = NewCloud("inplace")

HandleInput ==
    /\ calls < MaxFrames
    /\ \E K \in KeysDown :
       \E st \in {handleInput(cloud, ax, normalsReady, K, file)} :
         /\ cloud' = st.cloud
         /\ ax' = st.ax
         /\ normalsReady' = st.normalsReady
         /\ loaded' = IF st.loaded THEN st.cloud.points ELSE loaded
         /\ keys' = K
    /\ calls' = calls + 1
    /\ last' = "handleInput"
    /\ before' = cloud
    /\ UNCHANGED <<file, eager>>
    /\ UNCHANGED pvars

NextViewer == HandleInput

SpecViewer == InitViewer /\ [][NextViewer]_vars

----------------------------------------------------------------------------
(* Properties *)

\* a step has just returned
StepDone == pc = "idle" /\ steps > 0

\* some pair was resolved as colliding in the current step
SomeHit == \E k \in 1..Len(evald) : evald[k].hit

\* particle i belongs to a pair resolved as colliding in the current step
InHit(i) == \E k \in 1..Len(evald) :
                evald[k].hit /\ (evald[k].i = i \/ evald[k].j = i)

\* C1 (containment): when a step has returned, every particle's centre is
\* inside the domain: |x| <= areaSize/2 and |y| <= areaSize/2.
C1_Containment ==
    StepDone =>
        \A i \in DOMAIN particles :
            /\ Abs(particles[i].px) <= Half(world)
            /\ Abs(particles[i].py) <= Half(world)

\* C2 (count conservation): no step of the program changes the set of
\* array indices, and the particle created at index i stays at index i.
C2_CountConservation ==
    [][/\ DOMAIN particles' = DOMAIN particles
       /\ \A i \in DOMAIN particles : particles[i].id = i
       /\ \A i \in DOMAIN particles' : particles'[i].id = i]_vars

C2_Witness ==
    /\ StepDone
    /\ steps = MaxSteps
    /\ Count >= 2
    /\ SomeHit

\* C3 (phase order): in every step the phases run are integration, then the
\* grid build, then pair tests only, each of the first two exactly once; a
\* returned step has run both; and when the first pair is about to be tested
\* every particle has been integrated and sits in the grid.
C3_PhaseOrder ==
    /\ \A k \in 1..Len(phases) :
          phases[k] = IF k = 1 THEN "integrate"
                      ELSE IF k = 2 THEN "build" ELSE "pair"
    /\ Len(evald) > 0 => Len(phases) = 2 + Len(evald)
    /\ StepDone => Len(phases) >= 2
    /\ (pc = "narrow" /\ evald = <<>>) =>
          /\ particles = IntegrateAll(prev, world, dt)
          /\ \A i \in DOMAIN particles :
                \E key \in DOMAIN grid.cells :
                    \E b \in 1..Len(grid.cells[key]) : grid.cells[key][b] = i

C3_Witness ==
    /\ StepDone
    /\ steps = MaxSteps
    /\ Len(evald) >= 2
    /\ SomeHit

\* C4 (pair non-double-processing): within a step every tested pair has
\* i < j (so never i = j) and no unordered pair is tested twice.
C4_PairsOnce ==
    /\ \A k \in 1..Len(evald) : evald[k].i < evald[k].j
    /\ \A k, l \in 1..Len(evald) :
          k < l => {evald[k].i, evald[k].j} # {evald[l].i, evald[l].j}

C4_Witness ==
    /\ Count >= 3
    /\ Len(evald) >= 3
    /\ SomeHit

\* the centres of i and j are closer than 2*radius at the positions ps
\* (the coordinate differences are bounded first, so the squares stay small)
Closer(ps, i, j, w) ==
    /\ Abs(ps[j].px - ps[i].px) < 2 * w.radius
    /\ Abs(ps[j].py - ps[i].py) < 2 * w.radius
    /\ Overlapping(ps, i, j, w)

\* the index j is in the bucket of one of the 9 cells around particle i's
\* cell, both taken at the positions ps
InNeighbourhood(ps, g, i, j, w) ==
    \E c \in 0..8 :
        LET key == NeighbourKey([EnterCursor(i, ps, w) EXCEPT !.c = c])
        IN  /\ key \in DOMAIN g.cells
            /\ \E b \in 1..Len(g.cells[key]) : g.cells[key][b] = j

\* C5 (broad-phase completeness at the build snapshot): for the positions
\* the grid was built from, every two particles with centres closer than
\* 2*radius have cell coordinates that differ by at most 1 on each axis, and
\* each is found in the 9 cells around the other.
C5_BroadPhaseComplete ==
    (pc = "narrow" /\ evald = <<>>) =>
        \A i, j \in DOMAIN mid :
            (i # j /\ Closer(mid, i, j, world)) =>
                /\ Abs(CellCoord(mid[i].px, world)
                         - CellCoord(mid[j].px, world)) <= 1
                /\ Abs(CellCoord(mid[i].py, world)
                         - CellCoord(mid[j].py, world)) <= 1
                /\ InNeighbourhood(mid, grid, i, j, world)

\* two overlapping particles in different cells at the build snapshot
C5_Witness ==
    /\ pc = "narrow"
    /\ evald = <<>>
    /\ \E i, j \in DOMAIN mid :
          /\ i # j
          /\ Closer(mid, i, j, world)
          /\ CellOf(mid[i], world) # CellOf(mid[j], world)

\* the current state is the one in which the pair (cur.i, candidate) is
\* about to be tested and is found overlapping
AtHit ==
    /\ pc = "narrow"
    /\ cur.i < Count
    /\ Overlapping(particles, cur.i, CandidateAt(cur, grid), world)

\* mid and prev describe the current step
InStep == pc = "narrow" \/ StepDone

\* a coordinate after the integration of line 74/75, before the wall test
Advanced(pos, vel) == pos + RoundDiv(vel * dt, TimeScale)

HitsLow(pos) == pos - world.radius < -Half(world)

HitsHigh(pos) == ~HitsLow(pos) /\ pos + world.radius > Half(world)

HitsNone(pos) == ~HitsLow(pos) /\ ~HitsHigh(pos)

\* C6 (wall reflection): a particle whose integrated x crosses the +half
\* wall leaves the integration with position.x = half - radius and
\* velocity.x negated (-half + radius at the -half wall); if its integrated
\* y crosses no wall, velocity.y is unchanged and position.y is the
\* integrated value.  The same holds with x and y exchanged.  A particle
\* that is in no resolved collision of the step ends the step so.
C6_WallReflection ==
    InStep =>
        \A i \in DOMAIN mid :
            LET x1 == Advanced(prev[i].px, prev[i].vx)
                y1 == Advanced(prev[i].py, prev[i].vy)
            IN  /\ HitsHigh(x1) =>
                      /\ mid[i].px = Half(world) - world.radius
                      /\ mid[i].vx = -prev[i].vx
                /\ HitsLow(x1) =>
                      /\ mid[i].px = -Half(world) + world.radius
                      /\ mid[i].vx = -prev[i].vx
                /\ HitsNone(x1) => (mid[i].px = x1 /\ mid[i].vx = prev[i].vx)
                /\ HitsHigh(y1) =>
                      /\ mid[i].py = Half(world) - world.radius
                      /\ mid[i].vy = -prev[i].vy
                /\ HitsLow(y1) =>
                      /\ mid[i].py = -Half(world) + world.radius
                      /\ mid[i].vy = -prev[i].vy
                /\ HitsNone(y1) => (mid[i].py = y1 /\ mid[i].vy = prev[i].vy)
                /\ (StepDone /\ ~InHit(i)) => particles[i] = mid[i]

\* a particle crossed the +half x wall only, moving in y as well, and ended
\* the step without a collision
C6_Witness ==
    /\ StepDone
    /\ \E i \in DOMAIN mid :
          /\ HitsHigh(Advanced(prev[i].px, prev[i].vx))
          /\ HitsNone(Advanced(prev[i].py, prev[i].vy))
          /\ prev[i].vy # 0
          /\ prev[i].vx # 0
          /\ ~InHit(i)

\* C7 (speed-preserving swap): with the perturbation magnitude zero, a
\* resolved collision of i < j leaves i with exactly the velocity j had and
\* j with exactly the velocity i had, on both components.
C7_VelocitySwap ==
    [][(AtHit /\ pmag = 0) =>
          LET i == cur.i
              j == CandidateAt(cur, grid)
          IN  /\ i < j
              /\ particles'[i].vx = particles[j].vx
              /\ particles'[i].vy = particles[j].vy
              /\ particles'[j].vx = particles[i].vx
              /\ particles'[j].vy = particles[i].vy]_vars

\* the pair tested last was resolved with zero perturbation and the two
\* velocities differ
C7_Witness ==
    /\ pmag = 0
    /\ Len(evald) > 0
    /\ evald[Len(evald)].hit
    /\ LET i == evald[Len(evald)].i
           j == evald[Len(evald)].j
       IN  particles[i].vx # particles[j].vx \/ particles[i].vy # particles[j].vy

\* the pair about to be resolved has exactly coincident centres
AtCoincidentHit ==
    /\ AtHit
    /\ particles[cur.i].px = particles[CandidateAt(cur, grid)].px
    /\ particles[cur.i].py = particles[CandidateAt(cur, grid)].py

\* C8 (degenerate overlap): when a pair with coincident centres is resolved,
\* the direction used is (1e-3, 0): the divisor of the normalisation is not
\* zero, and the pair ends apart along x by 2*radius - 1e-3 with equal y.
C8_DegenerateOverlap ==
    [][AtCoincidentHit =>
          LET i == cur.i
              j == CandidateAt(cur, grid)
              c == Centres(particles, i, j)
          IN  /\ c.dx = Nudge /\ c.dy = 0
              /\ Sqrt(c.dist2 * SubScale * SubScale) > 0
              /\ particles'[j].px - particles'[i].px = MinDist(world) - Nudge
              /\ particles'[j].py = particles'[i].py
              /\ particles'[i].py = particles[i].py]_vars

\* the pair tested last was coincident and is now apart by 2*radius - 1e-3
C8_Witness ==
    /\ Len(evald) > 0
    /\ evald[Len(evald)].hit
    /\ LET i == evald[Len(evald)].i
           j == evald[Len(evald)].j
       IN  /\ mid[i].px = mid[j].px /\ mid[i].py = mid[j].py
           /\ Len(evald) = 1
           /\ particles[j].px - particles[i].px = MinDist(world) - Nudge

\* the two-particle scenario: radius 1, (-0.4, 0) moving at (+5, 0) and
\* (0.4, 0) moving at (-5, 0), no perturbation
C9_Scenario ==
    /\ world.radius = Scale
    /\ pmag = 0
    /\ Count = 2
    /\ prev[0].px = -((4 * Scale) \div 10) /\ prev[0].py = 0
    /\ prev[0].vx = 5 * Scale /\ prev[0].vy = 0
    /\ prev[1].px = (4 * Scale) \div 10 /\ prev[1].py = 0
    /\ prev[1].vx = -5 * Scale /\ prev[1].vy = 0

\* C9 (two-particle scenario): after one step of the scenario whose
\* integration leaves the two within 2*radius, the centres are at least
\* 2*radius apart and the velocities are (-5, 0) and (+5, 0).
C9_TwoParticles ==
    (StepDone /\ steps = 1 /\ C9_Scenario /\ Closer(mid, 0, 1, world)) =>
        /\ ~Closer(particles, 0, 1, world)
        /\ particles[0].vx = -5 * Scale /\ particles[0].vy = 0
        /\ particles[1].vx = 5 * Scale /\ particles[1].vy = 0

C9_Witness ==
    /\ StepDone /\ steps = 1 /\ C9_Scenario /\ Closer(mid, 0, 1, world)
    /\ dt # DtFixed
    /\ evald = <<[i |-> 0, j |-> 1, hit |-> TRUE]>>

\* C10 (determinism): the particle array and rand() position a step ends
\* with are the values of one function of the particle array, dt and rand()
\* sequence it started with, whichever order the hash map keeps its keys in.
C10_Determinism ==
    StepDone =>
        \A layout \in Layouts :
            StepSimulation(prev, world, dt, pmag, tape, rprev, layout)
                = [particles |-> particles, rpos |-> rpos]

\* a step with perturbation has resolved two pairs of particles that lie in
\* more than one cell
C10_Witness ==
    /\ StepDone
    /\ pmag > 0
    /\ Count >= 3
    /\ \E k, l \in 1..Len(evald) : k < l /\ evald[k].hit /\ evald[l].hit
    /\ \E i, j \in DOMAIN mid : CellOf(mid[i], world) # CellOf(mid[j], world)

\* the squared distance between the centres of i and j, times 4
Dist2x4(ps, i, j) ==
    4 * ((ps[j].px - ps[i].px) * (ps[j].px - ps[i].px)
         + (ps[j].py - ps[i].py) * (ps[j].py - ps[i].py))

\* C13 (positional correction): when a pair (i,j) is resolved, coincident
\* centres included, then right after the correction the two centres are at
\* least 2*radius apart (up to the rounding of the four coordinates, less
\* than 1e-3), i and j have moved by opposite displacements, and the
\* displacement of j lies along the line of centres from i to j.
C13_CorrectionSeparates ==
    [][AtHit =>
          LET i  == cur.i
              j  == CandidateAt(cur, grid)
              c  == Centres(particles, i, j)
              mx == particles'[j].px - particles[j].px
              my == particles'[j].py - particles[j].py
          IN  /\ Dist2x4(particles', i, j)
                    >= (2 * MinDist(world) - 3) * (2 * MinDist(world) - 3)
              /\ particles'[i].px - particles[i].px = -mx
              /\ particles'[i].py - particles[i].py = -my
              /\ Abs(mx * c.dy - my * c.dx) <= Abs(c.dx) + Abs(c.dy)
              /\ mx * c.dx + my * c.dy >= 0]_vars

\* C14 as stated (pair processing order): the pairs tested in a step are
\* tested in increasing (i,j) order: a pair with a smaller first index comes
\* before one with a larger first index, and for one i the pair (i,j) comes
\* before (i,k) whenever j < k.
C14_IncreasingPairs ==
    \A k, l \in 1..Len(evald) :
        k < l => \/ evald[k].i < evald[l].i
                 \/ evald[k].i = evald[l].i /\ evald[k].j < evald[l].j

\* candidate a is met before candidate b by the traversal of the cells
\* around one particle: cells by increasing cx, then cy, then bucket order
MetBefore(a, b) ==
    LET ca == CellOf(mid[a], world)
        cb == CellOf(mid[b], world)
    IN  \/ ca[1] < cb[1]
        \/ ca[1] = cb[1] /\ ca[2] < cb[2]
        \/ ca = cb /\ a < b

RECURSIVE Replayed(_)
\* the particle array after the first k pair tests of the step, obtained by
\* applying the positional corrections one after another to the positions
\* the grid was built from (velocities carry no perturbation here)
Replayed(k) ==
    IF k = 0 THEN mid
    ELSE ResolveCollision(Replayed(k - 1), evald[k].i, evald[k].j, world,
                          0, tape, 0)

\* C14 (pair processing order, amended): the pairs tested in a step are
\* tested in increasing order of the first index i; for one i, in the order
\* the traversal of the 3x3 neighbourhood meets the candidates (cells by
\* increasing cx, then cy, within a cell by increasing j), which need not be
\* increasing j; and every test and correction works on the positions left
\* by all the corrections made before it in the step.
C14_TraversalOrder ==
    /\ \A k, l \in 1..Len(evald) :
          k < l => \/ evald[k].i < evald[l].i
                   \/ /\ evald[k].i = evald[l].i
                      /\ MetBefore(evald[k].j, evald[l].j)
    /\ \A k \in 1..Len(evald) :
          evald[k].hit = Overlapping(Replayed(k - 1), evald[k].i, evald[k].j,
                                     world)
    /\ Len(evald) > 0 =>
          \A i \in DOMAIN particles :
              /\ particles[i].px = Replayed(Len(evald))[i].px
              /\ particles[i].py = Replayed(Len(evald))[i].py

\* for one i, a candidate with the larger index was tested first and
\* resolved, and the other candidate was tested after it
C14_Witness ==
    \E k, l \in 1..Len(evald) :
        /\ k < l
        /\ evald[k].i = evald[l].i
        /\ evald[k].j > evald[l].j
        /\ evald[k].hit

\* the places <<key, b>> of the grid that hold index i
PlacesOf(i) ==
    {kb \in {<<key, b>> : key \in DOMAIN grid.cells, b \in 1..Count} :
        kb[2] <= Len(grid.cells[kb[1]]) /\ grid.cells[kb[1]][kb[2]] = i}

\* C15 (grid consistency): the grid exists only inside a step; when its
\* build has finished it holds every particle index exactly once, in the
\* bucket of the cell (floor((x+half)/cellSize), floor((y+half)/cellSize))
\* of the position the particle had at build time, and nothing else: no
\* other index, no key with an empty bucket, no key twice.
C15_GridConsistent ==
    /\ pc # "narrow" => grid = EmptyGrid
    /\ pc = "narrow" =>
          /\ \A i \in DOMAIN mid :
                \A kb \in PlacesOf(i) :
                    kb[1] = <<(mid[i].px + Half(world)) \div (2 * world.radius),
                              (mid[i].py + Half(world)) \div (2 * world.radius)>>
          /\ \A i \in DOMAIN mid : Cardinality(PlacesOf(i)) = 1
          /\ \A key \in DOMAIN grid.cells :
                /\ Len(grid.cells[key]) > 0
                /\ \A b \in 1..Len(grid.cells[key]) :
                      grid.cells[key][b] \in DOMAIN mid
          /\ Len(grid.order) = Cardinality(DOMAIN grid.cells)
          /\ \A key \in DOMAIN grid.cells :
                \E k \in 1..Len(grid.order) : grid.order[k] = key

\* the grid of a second step, in which a particle lies in another cell than
\* the one it was in when the step began, and two particles share a bucket
C15_Witness ==
    /\ pc = "narrow"
    /\ steps >= 1
    /\ \E i \in DOMAIN mid : CellOf(mid[i], world) # CellOf(prev[i], world)
    /\ \E key \in DOMAIN grid.cells : Len(grid.cells[key]) >= 2

\* C16 (integrator post-condition): whatever position and velocity a
\* particle has before the step, outside the domain included, and whatever
\* world with areaSize >= 2*radius, right after the integration loop its x
\* and y lie in [-half + radius, half - radius], and each velocity component
\* is the old one or its negation, negated only where the position was put
\* on a wall.
C16_IntegratorPost ==
    pc = "integrated" =>
        \A i \in DOMAIN particles :
            LET lo == -Half(world) + world.radius
                hi == Half(world) - world.radius
            IN  /\ lo <= particles[i].px /\ particles[i].px <= hi
                /\ lo <= particles[i].py /\ particles[i].py <= hi
                /\ particles[i].vx \in {prev[i].vx, -prev[i].vx}
                /\ particles[i].vy \in {prev[i].vy, -prev[i].vy}
                /\ particles[i].vx # prev[i].vx => particles[i].px \in {lo, hi}
                /\ particles[i].vy # prev[i].vy => particles[i].py \in {lo, hi}

\* a particle that was outside the domain on both axes has been integrated
C16_Witness ==
    /\ pc = "integrated"
    /\ \E i \in DOMAIN particles :
          /\ prev[i].px > Half(world)
          /\ prev[i].py < -Half(world)
          /\ particles[i].vx = -prev[i].vx
          /\ prev[i].vx # 0

\* the pair (cur.i, candidate) is about to be tested and found not overlapping
AtMiss ==
    /\ pc = "narrow"
    /\ cur.i < Count
    /\ ~Overlapping(particles, cur.i, CandidateAt(cur, grid), world)

\* C17 (bounded perturbation): a resolved collision leaves each of the four
\* velocity components within p/2 (0.005 for p = 0.01) of its swapped value,
\* the four offsets coming from four successive rand() results, one each;
\* a pair that is tested and found not overlapping changes no particle and
\* consumes no rand() result.
C17_BoundedPerturbation ==
    [][/\ AtHit =>
            LET i  == cur.i
                j  == CandidateAt(cur, grid)
                o1 == particles'[i].vx - particles[j].vx
                o2 == particles'[i].vy - particles[j].vy
                o3 == particles'[j].vx - particles[i].vx
                o4 == particles'[j].vy - particles[i].vy
            IN  /\ pmag <= PerturbP
                /\ \A o \in {o1, o2, o3, o4} : 2 * Abs(o) <= pmag
                /\ o1 = Perturb(RandAt(tape, rpos, 0), pmag)
                /\ o2 = Perturb(RandAt(tape, rpos, 1), pmag)
                /\ o3 = Perturb(RandAt(tape, rpos, 2), pmag)
                /\ o4 = Perturb(RandAt(tape, rpos, 3), pmag)
                /\ rpos' = (rpos + 4) % Len(tape)
       /\ AtMiss => (particles' = particles /\ rpos' = rpos)]_vars

\* a pair was resolved with p = 0.01 and its offsets are not all the same,
\* and a pair tested after it was found not overlapping
C17_Witness ==
    /\ pmag = PerturbP
    /\ Len(evald) >= 2
    /\ evald[1].hit
    /\ ~evald[Len(evald)].hit
    /\ rpos = (rprev + 4) % Len(tape)
    /\ LET i == evald[1].i
           j == evald[1].j
       IN  particles[i].vx - mid[j].vx # particles[i].vy - mid[j].vy

\* the first index of the pair tested last in this step (-1: none yet)
LastI == IF evald = <<>> THEN -1 ELSE evald[Len(evald)].i

\* the particles whose iteration of the narrow-phase loop began after the
\* last pair test: none of their pairs has been tested yet, so they and
\* every other particle are where they were when the iteration began
Entered == {i \in DOMAIN particles : LastI < i /\ i <= cur.i}

\* C18 as stated (narrow-phase completeness during resolution): when the
\* resolver begins the iteration of particle i, every j > i whose current
\* centre is closer than 2*radius to i's current centre is in the bucket of
\* one of the 9 cells looked up for i, also after earlier corrections of the
\* step have displaced i or j.
C18_NarrowComplete ==
    pc = "narrow" =>
        \A i \in Entered : \A j \in DOMAIN particles :
            (j > i /\ Closer(particles, i, j, world)) =>
                InNeighbourhood(particles, grid, i, j, world)

\* C18 (amended): when the resolver begins the iteration of particle i,
\* every j > i whose centre at grid-build time is closer than 2*radius to
\* i's current centre is in the bucket of one of the 9 cells looked up for
\* i; so is every j > i overlapping i that no correction has displaced
\* since the build.
C18_BuildTimeComplete ==
    pc = "narrow" =>
        \A i \in Entered : \A j \in DOMAIN particles :
            /\ (j > i /\ Closer([particles EXCEPT ![j] = mid[j]], i, j, world))
                  => InNeighbourhood(particles, grid, i, j, world)
            /\ (j > i /\ particles[j] = mid[j]
                      /\ Closer(particles, i, j, world))
                  => InNeighbourhood(particles, grid, i, j, world)

\* the iteration of a particle i that an earlier correction has displaced
\* begins, and an undisplaced j > i in another cell overlaps it
C18_Witness ==
    /\ pc = "narrow"
    /\ \E i \in Entered : \E j \in DOMAIN particles :
          /\ j > i
          /\ particles[i].px # mid[i].px
          /\ particles[j] = mid[j]
          /\ Closer(particles, i, j, world)
          /\ CellOf(particles[i], world) # CellOf(mid[j], world)

\* (|vx|, |vy|) of a particle
Magnitudes(q) == <<Abs(q.vx), Abs(q.vy)>>

\* the multiset of the particles' velocity magnitudes: how many particles
\* have each pair (|vx|, |vy|)
SpeedBag(ps) ==
    [m \in {Magnitudes(ps[i]) : i \in DOMAIN ps} |->
        Cardinality({i \in DOMAIN ps : Magnitudes(ps[i]) = m})]

\* C19 (speed conservation without perturbation): with the perturbation
\* magnitude zero, no part of a step changes the multiset of the particles'
\* velocity magnitudes (|vx|, |vy|), so after any sequence of steps it is the
\* multiset of the initial state: a wall bounce negates a component and a
\* collision exchanges the velocities of two particles.
C19_SpeedConserved ==
    [][pmag = 0 => SpeedBag(particles') = SpeedBag(particles)]_vars

\* without perturbation, a step in which a particle has bounced off a wall
\* and two particles of different velocities have collided and exchanged
\* them
C19_Witness ==
    /\ pmag = 0
    /\ pc = "narrow"
    /\ \E i \in DOMAIN particles :
          mid[i].vx = -prev[i].vx /\ prev[i].vx # 0
    /\ \E k \in DOMAIN evald :
          /\ evald[k].hit
          /\ mid[evald[k].i].vx # mid[evald[k].j].vx
          /\ particles[evald[k].i].vx = mid[evald[k].j].vx
          /\ particles[evald[k].j].vx = mid[evald[k].i].vx

\* the integrator handled a contact of q with the -half wall on the axis
\* with position pos and velocity vel: the moved position is beyond it
LowContact(pos, vel, w, d) ==
    pos + RoundDiv(vel * d, TimeScale) - w.radius < -Half(w)

\* the same for the +half wall (the else branch)
HighContact(pos, vel, w, d) ==
    /\ ~LowContact(pos, vel, w, d)
    /\ pos + RoundDiv(vel * d, TimeScale) + w.radius > Half(w)

\* C20 (reflection points inward): right after the integration loop, every
\* velocity component of a particle whose contact with a wall the loop has
\* handled points into the domain: it is >= 0 after a contact with the -half
\* wall and <= 0 after a contact with the +half wall.
C20_ReflectionInward ==
    pc = "integrated" =>
        \A i \in DOMAIN particles :
            /\ LowContact(prev[i].px, prev[i].vx, world, dt)
                  => particles[i].vx >= 0
            /\ HighContact(prev[i].px, prev[i].vx, world, dt)
                  => particles[i].vx <= 0
            /\ LowContact(prev[i].py, prev[i].vy, world, dt)
                  => particles[i].vy >= 0
            /\ HighContact(prev[i].py, prev[i].vy, world, dt)
                  => particles[i].vy <= 0

\* the particles of the pairs the narrow phase has found overlapping so far
\* in this step
HitParticles ==
    {evald[k].i : k \in {n \in DOMAIN evald : evald[n].hit}}
        \cup {evald[k].j : k \in {n \in DOMAIN evald : evald[n].hit}}

\* C21 (resolver frame condition): throughout the narrow phase, and so at
\* the end of the step, every particle that belongs to no pair found
\* overlapping has exactly the position and velocity the integration phase
\* gave it; only particles of overlapping pairs are changed.
C21_ResolverFrame ==
    pc = "narrow" =>
        \A i \in DOMAIN particles :
            i \notin HitParticles => particles[i] = mid[i]

\* the narrow phase has ended; it has resolved a pair, and it has tested
\* without resolving a pair of a particle that is in no overlapping pair
C21_Witness ==
    /\ pc = "narrow"
    /\ cur.i >= Count
    /\ \E k \in DOMAIN evald :
          evald[k].hit /\ particles[evald[k].i] # mid[evald[k].i]
    /\ \E k \in DOMAIN evald :
          /\ ~evald[k].hit
          /\ evald[k].i \notin HitParticles \/ evald[k].j \notin HitParticles

----------------------------------------------------------------------------
(* Properties of the point cloud viewer *)

\* C22 (stats cache coherence): whenever the cloud's statsDirty is false,
\* the cached centroid and bounding box are the ones recomputeStats would
\* compute from the current points.
C22_StatsCoherent ==
    ~cloud.statsDirty => cloud.stats = recomputeStats(cloud.points)

\* the positions of a sequence of points
Positions(pts) == [k \in 1..Len(pts) |-> <<pts[k].x, pts[k].y, pts[k].z>>]

\* the rounding allowed between two ways of computing a position: 0.05
Tol == Fix \div 20

\* two position sequences agree up to rounding
Agree(P, Q) ==
    /\ Len(P) = Len(Q)
    /\ \A k \in 1..Len(P) : \A a \in 1..3 : Abs(P[k][a] - Q[k][a]) <= Tol

\* C23 (lazy and eager PointCloud agree): after the same translate and
\* rotate calls on the same loaded points, the positions of the pending-model
\* object, taken after baking the model and taken from
\* forEachTransformedPoint, are the positions the in-place object holds (up
\* to rounding), the direction of every rotation included.
C23_LazyEagerAgree ==
    last \in {"translate", "rotate", "printSummary"} =>
        /\ Agree(Positions(bakePendingModel(cloud).points),
                 Positions(eager.points))
        /\ Agree(forEachTransformedPoint(cloud), Positions(eager.points))

\* the normal of p has unit length, up to rounding
UnitNormal(p) ==
    LET len2 == p.nx * p.nx + p.ny * p.ny + p.nz * p.nz
    IN  Abs(len2 - Fix * Fix) <= (Fix * Fix) \div 20

\* p lies on the centroid of the points pts
OnCentroid(p, pts) ==
    LET s == recomputeStats(pts)
    IN  p.x = s.cx /\ p.y = s.cy /\ p.z = s.cz

\* C24 (normals are ready when flagged): whenever the viewer's normalsReady
\* is true, every point of the cloud that is off the centroid carries a
\* normal of unit length, as estimateNormals gives it, so that N / M moves
\* the points; this holds after the U key too.
C24_NormalsReady ==
    normalsReady =>
        \A k \in 1..Len(cloud.points) :
            \/ UnitNormal(cloud.points[k])
            \/ OnCentroid(cloud.points[k], cloud.points)

\* C11: whenever handleInput has handled the U key, the cloud holds exactly
\* the points of the PLY file: as many points as the file has, each once,
\* with the coordinates the file gives, whatever was done to the cloud
\* before and however often U was pressed before
C11_ResetKey ==
    ("U" \in keys /\ Loadable(file)) => cloud.points = FilePoints(file)

\* C12: resetToOriginal, called after a successful loadFromPLY and any
\* calls of translate, rotate, displaceAlongNormals, displaceSymmetrically
\* and estimateNormals, makes the points (positions, colours, normals) equal
\* to what they were when the load finished, and in the pending variant
\* leaves no pending model behind
C12_ResetRoundTrip ==
    (last = "resetToOriginal" /\ loaded # <<>>) =>
        /\ cloud.points = loaded
        /\ Pending(cloud) => cloud.model = identity /\ ~cloud.hasPendingModel

\* a reset that found the points different from the loaded ones
C12_Witness ==
    /\ last = "resetToOriginal"
    /\ loaded # <<>>
    /\ before.points # loaded

====
